---- MODULE Spec2Model ----
(***************************************************************************)
(* Model of the two Service Desk Plus scripts:                             *)
(*   update_ci_cmdb.py            (class SDPCMDBUpdater)                   *)
(*   update_user_to_technician.py (class SDPTechnicianUpdater)             *)
(*                                                                         *)
(* Python values are modelled as strings: None is "None", the booleans are *)
(* "True" and "False", the empty string is "", the empty dict is "{}".     *)
(* Id lists (site_ids, group_ids, role_ids) are sequences.                 *)
(* A backend answer is either a transport error (the requests call raises) *)
(* or an HTTP response with a status and a body.                           *)
(***************************************************************************)
EXTENDS Integers, Sequences, FiniteSets, TLC

\* Longest work-item list handed to a bulk run.
MaxItems == 2

None == "None"
PyTrue == "True"
PyFalse == "False"

\* Python truthiness of a scalar / dict value (`if x:`, `not x`).
Truthy(v) == v \notin {None, PyFalse, "", "{}"}

\* Python truthiness of a list.
TruthyList(l) == Len(l) > 0

----------------------------------------------------------------------------
\* Backend answers.

Statuses == {200, 201, 404, 500}

\* Bodies as response.json() sees them.  parse = "malformed": json() raises;
\* parse = "array": json() returns a non-dict, so data.get raises;
\* parse = "object": a dict holding at most the key rkey with value val
\* (val = None is JSON null; for the key 'technician' val is the 'id' field of
\* the nested object, "noid" when that object has no 'id', and None when the
\* value under 'technician' is null; "" is an empty id string).
ResourceKeys == {"ci", "user", "technician"}

RecordValues == {None, "RECORD"}

GetBodies ==
    {[parse |-> "malformed", rkey |-> "absent", val |-> None],
     [parse |-> "array", rkey |-> "absent", val |-> None],
     [parse |-> "object", rkey |-> "absent", val |-> None]}
    \cup [parse : {"object"}, rkey : ResourceKeys, val : RecordValues]

TechnicianIds == {"T1", "T2"}

ConvertBodies ==
    {[parse |-> "malformed", rkey |-> "absent", val |-> None],
     [parse |-> "array", rkey |-> "absent", val |-> None],
     [parse |-> "object", rkey |-> "absent", val |-> None]}
    \cup [parse : {"object"}, rkey : {"technician"},
          val : {None, "noid", ""} \cup TechnicianIds]

NoBody == [parse |-> "malformed", rkey |-> "absent", val |-> None]

TransportError == [kind |-> "error", status |-> 0, body |-> NoBody]

HttpResponse(s, b) == [kind |-> "http", status |-> s, body |-> b]

GetResponses == {TransportError} \cup {HttpResponse(s, b) : s \in Statuses, b \in GetBodies}

ConvertResponses ==
    {TransportError} \cup {HttpResponse(s, b) : s \in Statuses, b \in ConvertBodies}

\* Answers to PUT / assignment POST: the body is never parsed.
PlainResponses == {TransportError} \cup {HttpResponse(s, NoBody) : s \in Statuses}

----------------------------------------------------------------------------
\* Construction (__init__): the session's headers and auth.  username and
\* password are required arguments, so they are given under every key.

TechnicianKeys == {None, "", "KEY"}

SessionHeadersBoth(technician_key) == {"TECHNICIAN_KEY", "Content-Type"}

SessionHeaders(technician_key) ==
    IF Truthy(technician_key)
    THEN {"TECHNICIAN_KEY", "Content-Type"}
    ELSE {"Content-Type"}

SessionAuth(technician_key) ==
    IF Truthy(technician_key) THEN None ELSE "HTTPBasicAuth"

----------------------------------------------------------------------------
\* Resource operations: what each returns for a backend answer.

WholeBody == "WHOLE_BODY"

get_ci_details_no_fallback(resp) ==
    IF resp.kind = "error" THEN None
    ELSE IF resp.status = 200
         THEN IF resp.body.parse # "object" THEN None
              ELSE IF resp.body.rkey = "ci" THEN resp.body.val ELSE None
         ELSE None

get_ci_details(resp) ==
    IF resp.kind = "error" THEN None
    ELSE IF resp.status = 200
         THEN IF resp.body.parse # "object" THEN None
              ELSE IF resp.body.rkey = "ci" THEN resp.body.val ELSE WholeBody
         ELSE IF resp.status = 404 THEN None
         ELSE None

get_user_details(resp) ==
    IF resp.kind = "error" THEN None
    ELSE IF resp.status = 200
         THEN IF resp.body.parse # "object" THEN None
              ELSE IF resp.body.rkey = "user" THEN resp.body.val ELSE WholeBody
         ELSE IF resp.status = 404 THEN None
         ELSE None

get_technician_details(resp) ==
    IF resp.kind = "error" THEN None
    ELSE IF resp.status = 200
         THEN IF resp.body.parse # "object" THEN None
              ELSE IF resp.body.rkey = "technician" THEN resp.body.val ELSE WholeBody
         ELSE IF resp.status = 404 THEN None
         ELSE None

update_ci_fields_only200(resp) ==
    IF resp.kind = "error" THEN PyFalse
    ELSE IF resp.status = 200 THEN PyTrue ELSE PyFalse

update_ci_fields(resp) ==
    IF resp.kind = "error" THEN PyFalse
    ELSE IF resp.status \in {200, 201} THEN PyTrue ELSE PyFalse

update_technician(resp) ==
    IF resp.kind = "error" THEN None
    ELSE IF resp.status \in {200, 201} THEN PyTrue ELSE PyFalse

\* data.get('technician', {}).get('id'); any exception gives None.
convert_user_to_technician(resp) ==
    IF resp.kind = "error" THEN None
    ELSE IF resp.status \in {200, 201}
         THEN IF resp.body.parse # "object" THEN None
              ELSE IF resp.body.rkey # "technician" THEN None
              ELSE IF resp.body.val \in {None, "noid"} THEN None
              ELSE resp.body.val
         ELSE None

assign_technician_to_sites(resp) ==
    IF resp.kind = "error" THEN PyFalse
    ELSE IF resp.status \in {200, 201} THEN PyTrue ELSE PyFalse

assign_technician_to_groups(resp) ==
    IF resp.kind = "error" THEN PyFalse
    ELSE IF resp.status \in {200, 201} THEN PyTrue ELSE PyFalse

assign_technician_roles(resp) ==
    IF resp.kind = "error" THEN PyFalse
    ELSE IF resp.status \in {200, 201} THEN PyTrue ELSE PyFalse

----------------------------------------------------------------------------
\* List and search operations.  The try block of an operation either gives a
\* value or raises; its `except Exception` gives the fallback instead.

Raised == "RAISED"

EmptyList == "[]"

\* What a body may hold under a list key: JSON null, [] or a non-empty list.
ListValues == {None, EmptyList, "LIST"}

ListBodies(key) ==
    {[parse |-> "malformed", rkey |-> "absent", val |-> None],
     [parse |-> "array", rkey |-> "absent", val |-> None],
     [parse |-> "object", rkey |-> "absent", val |-> None]}
    \cup [parse : {"object"}, rkey : {key}, val : ListValues]

ListResponses(key) ==
    {TransportError} \cup {HttpResponse(s, b) : s \in Statuses, b \in ListBodies(key)}

ExceptReraise(v, fallback) == v

\* `except Exception as e: ... return <fallback>`
Except(v, fallback) == IF v = Raised THEN fallback ELSE v

\* data.get(key, []) followed by len(...), which raises on None.
search_ci_try(resp) ==
    IF resp.kind = "error" THEN Raised
    ELSE IF resp.status = 200
         THEN IF resp.body.parse # "object" THEN Raised
              ELSE LET cis == IF resp.body.rkey = "cis" THEN resp.body.val ELSE EmptyList
                   IN IF cis = None THEN Raised ELSE cis
         ELSE EmptyList

search_ci(resp) == Except(search_ci_try(resp), EmptyList)

search_users_try(resp) ==
    IF resp.kind = "error" THEN Raised
    ELSE IF resp.status = 200
         THEN IF resp.body.parse # "object" THEN Raised
              ELSE LET users == IF resp.body.rkey = "users" THEN resp.body.val ELSE EmptyList
                   IN IF users = None THEN Raised ELSE users
         ELSE EmptyList

search_users(resp) == Except(search_users_try(resp), EmptyList)

\* return data.get(key, []): the value is handed back as it is.
get_sites_try(resp) ==
    IF resp.kind = "error" THEN Raised
    ELSE IF resp.status = 200
         THEN IF resp.body.parse # "object" THEN Raised
              ELSE IF resp.body.rkey = "sites" THEN resp.body.val ELSE EmptyList
         ELSE EmptyList

get_sites(resp) == Except(get_sites_try(resp), EmptyList)

get_groups_try(resp) ==
    IF resp.kind = "error" THEN Raised
    ELSE IF resp.status = 200
         THEN IF resp.body.parse # "object" THEN Raised
              ELSE IF resp.body.rkey = "groups" THEN resp.body.val ELSE EmptyList
         ELSE EmptyList

get_groups(resp) == Except(get_groups_try(resp), EmptyList)

get_roles_try(resp) ==
    IF resp.kind = "error" THEN Raised
    ELSE IF resp.status = 200
         THEN IF resp.body.parse # "object" THEN Raised
              ELSE IF resp.body.rkey = "roles" THEN resp.body.val ELSE EmptyList
         ELSE EmptyList

get_roles(resp) == Except(get_roles_try(resp), EmptyList)

----------------------------------------------------------------------------
\* Inputs.

Ids == {"ID1", "ID2"}

\* A work item of bulk_update_ci_fields: ci_update.get('ci_id'),
\* ci_update.get('updates') (None when the key is missing).
CIItems == [ci_id : {None, "", "CI001", "CI002"}, updates : {None, "{}", "{status}"}]

\* A work item of bulk_process_users_to_technicians: user_config.get('user_id')
\* and the id lists (default [] when the key is missing).
\* The id-list shapes the conversion items are drawn from.
IdLists ==
    {[site_ids |-> <<>>, group_ids |-> <<>>, role_ids |-> <<>>],
     [site_ids |-> <<"SITE001">>, group_ids |-> <<>>, role_ids |-> <<"ROLE001">>],
     [site_ids |-> <<"SITE001">>, group_ids |-> <<"GROUP001">>, role_ids |-> <<"ROLE001">>]}

UserItems ==
    {[user_id |-> "USER001", site_ids |-> l.site_ids, group_ids |-> l.group_ids,
      role_ids |-> l.role_ids] : l \in IdLists}
    \cup {[user_id |-> u, site_ids |-> <<"SITE001">>, group_ids |-> <<"GROUP001">>,
           role_ids |-> <<"ROLE001">>] : u \in {None, ""}}

ListsOf(S) == UNION {[1..k -> S] : k \in 0..MaxItems}

----------------------------------------------------------------------------
\* State.

VARIABLES
    client,          \* which class was constructed: "cmdb" or "tech"
    technician_key,  \* self.technician_key
    headers,         \* names of self.session.headers
    auth,            \* self.session.auth
    pc,              \* position of the running bulk call
    items,           \* the list handed to the bulk call
    idx,             \* number of items the for loop has finished
    results,         \* the results dict of the bulk call
    outcomes,        \* per finished item, what the single-item operation gave
    log,             \* every HTTP request of the bulk call, in order of sending
    technician_id,   \* local of process_user_to_technician
    success,         \* local of process_user_to_technician
    attempts,        \* calls of the latest process_user_to_technician, with results
    lastCall,        \* the last direct call of a resource operation
    stdout           \* the lines main() has printed

vars == <<client, technician_key, headers, auth, pc, items, idx, results,
          outcomes, log, technician_id, success, attempts, lastCall, stdout>>

session == <<client, technician_key, headers, auth>>

NoResponse == [kind |-> "none", status |-> 0, body |-> NoBody]

NoCall == [op |-> "none", id |-> None, resp |-> NoResponse, result |-> None,
           requests |-> <<>>]

\* The request self.session.<method>(url, ...) sends while item n is processed
\* (n = 0 for a direct call).
Request(n, op, method, path, target) ==
    [item |-> n, op |-> op, method |-> method, path |-> path, target |-> target,
     headers |-> headers, auth |-> auth]

SendRetry(sent, req, resp) ==
    IF resp.kind = "http" /\ resp.status \in {200, 201}
    THEN Append(sent, req)
    ELSE Append(Append(sent, req), req)

\* One call of self.session.get / put / post answered by resp: the request is
\* sent once, whatever the answer.
Send(sent, req, resp) == Append(sent, req)

Init ==
    /\ client \in {"cmdb", "tech"}
    /\ technician_key \in TechnicianKeys
    /\ headers = SessionHeaders(technician_key)
    /\ auth = SessionAuth(technician_key)
    /\ pc = "idle"
    /\ items = <<>>
    /\ idx = 0
    /\ results = [successful |-> 0, failed |-> 0]
    /\ outcomes = <<>>
    /\ log = <<>>
    /\ technician_id = None
    /\ success = PyTrue
    /\ attempts = <<>>
    /\ lastCall = NoCall
    /\ stdout = <<>>

bulkVars == <<pc, items, idx, results, outcomes, log, technician_id, success, attempts>>

----------------------------------------------------------------------------
\* Direct calls of the resource operations.

Direct(op, method, path, id, resp, result) ==
    /\ pc = "idle"
    /\ lastCall' = [op |-> op, id |-> id, resp |-> resp, result |-> result,
                    requests |-> Send(<<>>, Request(0, op, method, path, id), resp)]
    /\ UNCHANGED <<session, stdout, bulkVars>>

GetCIDetails(ci_id, resp) ==
    /\ client = "cmdb"
    /\ Direct("get_ci_details", "GET", "/api/v3/cmdb/ci/{id}", ci_id, resp,
              get_ci_details(resp))

UpdateCIFields(ci_id, resp) ==
    /\ client = "cmdb"
    /\ Direct("update_ci_fields", "PUT", "/api/v3/cmdb/ci/{id}", ci_id, resp,
              update_ci_fields(resp))

GetUserDetails(user_id, resp) ==
    /\ client = "tech"
    /\ Direct("get_user_details", "GET", "/api/v3/users/{id}", user_id, resp,
              get_user_details(resp))

GetTechnicianDetails(tid, resp) ==
    /\ client = "tech"
    /\ Direct("get_technician_details", "GET", "/api/v3/technicians/{id}", tid, resp,
              get_technician_details(resp))

ConvertUserToTechnician(user_id, resp) ==
    /\ client = "tech"
    /\ Direct("convert_user_to_technician", "POST",
              "/api/v3/users/{id}/convert_to_technician", user_id, resp,
              convert_user_to_technician(resp))

UpdateTechnician(tid, resp) ==
    /\ client = "tech"
    /\ Direct("update_technician", "PUT", "/api/v3/technicians/{id}", tid, resp,
              update_technician(resp))

SearchCI(resp) ==
    /\ client = "cmdb"
    /\ Direct("search_ci", "GET", "/api/v3/cmdb/ci", None, resp, search_ci(resp))

SearchUsers(resp) ==
    /\ client = "tech"
    /\ Direct("search_users", "GET", "/api/v3/users", None, resp, search_users(resp))

GetSites(resp) ==
    /\ client = "tech"
    /\ Direct("get_sites", "GET", "/api/v3/sites", None, resp, get_sites(resp))

GetGroups(resp) ==
    /\ client = "tech"
    /\ Direct("get_groups", "GET", "/api/v3/groups", None, resp, get_groups(resp))

GetRoles(resp) ==
    /\ client = "tech"
    /\ Direct("get_roles", "GET", "/api/v3/roles", None, resp, get_roles(resp))

AssignTechnicianToSites(tid, resp) ==
    /\ client = "tech"
    /\ Direct("assign_technician_to_sites", "POST", "/api/v3/technicians/{id}/sites",
              tid, resp, assign_technician_to_sites(resp))

AssignTechnicianToGroups(tid, resp) ==
    /\ client = "tech"
    /\ Direct("assign_technician_to_groups", "POST", "/api/v3/technicians/{id}/groups",
              tid, resp, assign_technician_to_groups(resp))

AssignTechnicianRoles(tid, resp) ==
    /\ client = "tech"
    /\ Direct("assign_technician_roles", "POST", "/api/v3/technicians/{id}/roles",
              tid, resp, assign_technician_roles(resp))

----------------------------------------------------------------------------
\* bulk_update_ci_fields.

LoopContinuesFailFast(k, n) == k < n /\ results.failed = 0

\* The for loop over the input list: runs while items are left.
LoopContinues(k, n) == k < n

ValidCIUpdateIdOnly(ci_id, updates) == Truthy(ci_id)

\* The negation of `not ci_id or not updates`.
ValidCIUpdate(ci_id, updates) == Truthy(ci_id) /\ Truthy(updates)

TallyCIDropFailure(res, ok) ==
    IF Truthy(ok) THEN [res EXCEPT !.successful = @ + 1] ELSE res

TallyCI(res, ok) ==
    IF Truthy(ok)
    THEN [res EXCEPT !.successful = @ + 1]
    ELSE [res EXCEPT !.failed = @ + 1]

\* Entry of a bulk call on the client.  Direct calls leave nothing behind in
\* the session, so the bulk call is taken from the freshly constructed client.
BulkStart(list, loop) ==
    /\ pc = "idle"
    /\ lastCall = NoCall
    /\ items' = list
    /\ idx' = 0
    /\ results' = [successful |-> 0, failed |-> 0]
    /\ outcomes' = <<>>
    /\ log' = <<>>
    /\ pc' = loop
    /\ UNCHANGED <<session, stdout, technician_id, success, attempts, lastCall>>

BulkUpdateCIStart(ci_updates) ==
    /\ client = "cmdb"
    /\ BulkStart(ci_updates, "ci_loop")

BulkUpdateCIStep(resp) ==
    /\ pc = "ci_loop"
    /\ LoopContinues(idx, Len(items))
    /\ LET n == idx + 1
           ci_update == items[n]
           ok == update_ci_fields(resp)
       IN IF ~ValidCIUpdate(ci_update.ci_id, ci_update.updates)
          THEN /\ results' = [results EXCEPT !.failed = @ + 1]
               /\ outcomes' = Append(outcomes, PyFalse)
               /\ log' = log
          ELSE /\ log' = Send(log, Request(n, "update_ci_fields", "PUT",
                                           "/api/v3/cmdb/ci/{id}", ci_update.ci_id), resp)
               /\ results' = TallyCI(results, ok)
               /\ outcomes' = Append(outcomes, ok)
    /\ idx' = idx + 1
    /\ UNCHANGED <<session, stdout, pc, items, technician_id, success, attempts, lastCall>>

BulkUpdateCIReturn ==
    /\ pc = "ci_loop"
    /\ ~LoopContinues(idx, Len(items))
    /\ pc' = "done"
    /\ UNCHANGED <<session, stdout, items, idx, results, outcomes, log, technician_id,
                   success, attempts, lastCall>>

----------------------------------------------------------------------------
\* bulk_process_users_to_technicians and process_user_to_technician.

ConvertFailedIsNone(tid) == tid = None

\* `if not technician_id: return False`
ConvertFailed(tid) == ~Truthy(tid)

Overwrite(succ, ok) == ok

\* `if ids and not self.assign...(...): success = False`
Downgrade(succ, ok) == IF ~Truthy(ok) THEN PyFalse ELSE succ

TallyUser(res, ok) ==
    IF Truthy(ok)
    THEN [res EXCEPT !.successful = @ + 1]
    ELSE [res EXCEPT !.failed = @ + 1]

Attempt(op, result) == [op |-> op, result |-> result]

\* process_user_to_technician returned ok for the current item.
FinishUser(ok) ==
    /\ results' = TallyUser(results, ok)
    /\ outcomes' = Append(outcomes, ok)
    /\ idx' = idx + 1
    /\ pc' = "user_loop"
    /\ technician_id' = None
    /\ success' = PyTrue

BulkProcessStart(user_configs) ==
    /\ client = "tech"
    /\ BulkStart(user_configs, "user_loop")

\* Entry of process_user_to_technician up to the end of step 1.  The payload
\* technician_data is passed through unread.  Every resource operation catches
\* its own exceptions, so the outer `except Exception` (lines 376-378) is never
\* entered by a backend answer.
ProcessUserConvert(resp) ==
    /\ pc = "user_loop"
    /\ LoopContinues(idx, Len(items))
    /\ LET n == idx + 1
           user_config == items[n]
           tid == convert_user_to_technician(resp)
       IN IF ~Truthy(user_config.user_id)
          THEN /\ FinishUser(PyFalse)
               /\ attempts' = <<>>
               /\ log' = log
          ELSE /\ log' = Send(log, Request(n, "convert_user_to_technician", "POST",
                                           "/api/v3/users/{id}/convert_to_technician",
                                           user_config.user_id), resp)
               /\ attempts' = <<Attempt("convert_user_to_technician", tid)>>
               /\ IF ConvertFailed(tid)
                  THEN FinishUser(PyFalse)
                  ELSE /\ technician_id' = tid
                       /\ success' = PyTrue
                       /\ pc' = "sites"
                       /\ UNCHANGED <<idx, results, outcomes>>
    /\ UNCHANGED <<session, stdout, items, lastCall>>

AssignSitesToUserId(resp) ==
    /\ pc = "sites"
    /\ LET n == idx + 1
           site_ids == items[n].site_ids
           ok == assign_technician_to_sites(resp)
       IN IF TruthyList(site_ids)
          THEN /\ log' = Send(log, Request(n, "assign_technician_to_sites", "POST",
                                           "/api/v3/technicians/{id}/sites",
                                           items[n].user_id), resp)
               /\ attempts' = Append(attempts, Attempt("assign_technician_to_sites", ok))
               /\ success' = Downgrade(success, ok)
          ELSE UNCHANGED <<log, success, attempts>>
    /\ pc' = "groups"
    /\ UNCHANGED <<session, stdout, items, idx, results, outcomes, technician_id, lastCall>>

\* Step 2.
AssignSites(resp) ==
    /\ pc = "sites"
    /\ LET n == idx + 1
           site_ids == items[n].site_ids
           ok == assign_technician_to_sites(resp)
       IN IF TruthyList(site_ids)
          THEN /\ log' = Send(log, Request(n, "assign_technician_to_sites", "POST",
                                           "/api/v3/technicians/{id}/sites",
                                           technician_id), resp)
               /\ attempts' = Append(attempts, Attempt("assign_technician_to_sites", ok))
               /\ success' = Downgrade(success, ok)
          ELSE UNCHANGED <<log, success, attempts>>
    /\ pc' = "groups"
    /\ UNCHANGED <<session, stdout, items, idx, results, outcomes, technician_id, lastCall>>

\* Step 3.
AssignGroups(resp) ==
    /\ pc = "groups"
    /\ LET n == idx + 1
           group_ids == items[n].group_ids
           ok == assign_technician_to_groups(resp)
       IN IF TruthyList(group_ids)
          THEN /\ log' = Send(log, Request(n, "assign_technician_to_groups", "POST",
                                           "/api/v3/technicians/{id}/groups",
                                           technician_id), resp)
               /\ attempts' = Append(attempts, Attempt("assign_technician_to_groups", ok))
               /\ success' = Downgrade(success, ok)
          ELSE UNCHANGED <<log, success, attempts>>
    /\ pc' = "roles"
    /\ UNCHANGED <<session, stdout, items, idx, results, outcomes, technician_id, lastCall>>

\* Step 4, `return success`, and the tally of the bulk loop.
AssignRoles(resp) ==
    /\ pc = "roles"
    /\ LET n == idx + 1
           role_ids == items[n].role_ids
           ok == assign_technician_roles(resp)
       IN IF TruthyList(role_ids)
          THEN /\ log' = Send(log, Request(n, "assign_technician_roles", "POST",
                                           "/api/v3/technicians/{id}/roles",
                                           technician_id), resp)
               /\ attempts' = Append(attempts, Attempt("assign_technician_roles", ok))
               /\ FinishUser(Downgrade(success, ok))
          ELSE /\ FinishUser(success)
               /\ UNCHANGED <<log, attempts>>
    /\ UNCHANGED <<session, stdout, items, lastCall>>

BulkProcessReturn ==
    /\ pc = "user_loop"
    /\ ~LoopContinues(idx, Len(items))
    /\ pc' = "done"
    /\ UNCHANGED <<session, stdout, items, idx, results, outcomes, log, technician_id,
                   success, attempts, lastCall>>

----------------------------------------------------------------------------
\* main() of each script, from the constructed updater on.  With a non-empty
\* work list it runs the bulk call above and prints its counts; otherwise it
\* prints that nothing was specified.

\* `if ci_updates:` / `if user_conversions:`
HasWork(list) == TruthyList(list)

SummaryLineSwapped(text, res) == [text |-> text, counts |-> <<res.failed, res.successful>>]

\* print(f"... {results['successful']} successful, {results['failed']} failed")
SummaryLine(text, res) == [text |-> text, counts |-> <<res.successful, res.failed>>]

\* print("No ... specified in configuration")
NothingLine(text) == [text |-> text, counts |-> <<>>]

MainNothing(list, text) ==
    /\ pc = "idle"
    /\ lastCall = NoCall
    /\ ~HasWork(list)
    /\ items' = list
    /\ stdout' = Append(stdout, NothingLine(text))
    /\ pc' = "exited"
    /\ UNCHANGED <<session, idx, results, outcomes, log, technician_id, success,
                   attempts, lastCall>>

MainPrint(text) ==
    /\ pc = "done"
    /\ HasWork(items)
    /\ stdout' = Append(stdout, SummaryLine(text, results))
    /\ pc' = "exited"
    /\ UNCHANGED <<session, items, idx, results, outcomes, log, technician_id, success,
                   attempts, lastCall>>

MainCINoUpdates(ci_updates) ==
    /\ client = "cmdb"
    /\ MainNothing(ci_updates, "No CI updates specified in configuration")

MainCIPrintResults ==
    /\ client = "cmdb"
    /\ MainPrint("Update Results: {successful} successful, {failed} failed")

MainTechNoConversions(user_conversions) ==
    /\ client = "tech"
    /\ MainNothing(user_conversions, "No user conversions specified in configuration")

MainTechPrintResults ==
    /\ client = "tech"
    /\ MainPrint("Conversion Results: {successful} successful, {failed} failed")

----------------------------------------------------------------------------

Next ==
    \/ \E id \in Ids, resp \in GetResponses : GetCIDetails(id, resp)
    \/ \E id \in Ids, resp \in PlainResponses : UpdateCIFields(id, resp)
    \/ \E id \in Ids, resp \in GetResponses : GetUserDetails(id, resp)
    \/ \E id \in Ids, resp \in GetResponses : GetTechnicianDetails(id, resp)
    \/ \E id \in Ids, resp \in ConvertResponses : ConvertUserToTechnician(id, resp)
    \/ \E id \in Ids, resp \in PlainResponses : UpdateTechnician(id, resp)
    \/ \E resp \in ListResponses("cis") : SearchCI(resp)
    \/ \E resp \in ListResponses("users") : SearchUsers(resp)
    \/ \E resp \in ListResponses("sites") : GetSites(resp)
    \/ \E resp \in ListResponses("groups") : GetGroups(resp)
    \/ \E resp \in ListResponses("roles") : GetRoles(resp)
    \/ \E id \in Ids, resp \in PlainResponses : AssignTechnicianToSites(id, resp)
    \/ \E id \in Ids, resp \in PlainResponses : AssignTechnicianToGroups(id, resp)
    \/ \E id \in Ids, resp \in PlainResponses : AssignTechnicianRoles(id, resp)
    \/ \E ci_updates \in ListsOf(CIItems) : BulkUpdateCIStart(ci_updates)
    \/ \E resp \in PlainResponses : BulkUpdateCIStep(resp)
    \/ BulkUpdateCIReturn
    \/ \E user_configs \in ListsOf(UserItems) : BulkProcessStart(user_configs)
    \/ \E resp \in ConvertResponses : ProcessUserConvert(resp)
    \/ \E resp \in PlainResponses : AssignSites(resp)
    \/ \E resp \in PlainResponses : AssignGroups(resp)
    \/ \E resp \in PlainResponses : AssignRoles(resp)
    \/ BulkProcessReturn
    \/ \E ci_updates \in ListsOf(CIItems) : MainCINoUpdates(ci_updates)
    \/ MainCIPrintResults
    \/ \E user_conversions \in ListsOf(UserItems) : MainTechNoConversions(user_conversions)
    \/ MainTechPrintResults

Spec == Init /\ [][Next]_vars

----------------------------------------------------------------------------
\* Vocabulary of the properties.

AssignOps ==
    {"assign_technician_to_sites", "assign_technician_to_groups", "assign_technician_roles"}

UpdateOps == {"update_ci_fields", "update_technician"}

GetOps == {"get_ci_details", "get_user_details", "get_technician_details"}

\* Number of requests the bulk call has sent for item n by operation op.
CountCalls(n, op) == Cardinality({k \in 1..Len(log) : log[k].item = n /\ log[k].op = op})

\* Number of requests the bulk call has sent for item n.
CountItemCalls(n) == Cardinality({k \in 1..Len(log) : log[k].item = n})

\* Number of calls of op in the latest process_user_to_technician.
CountAttempts(op) == Cardinality({k \in 1..Len(attempts) : attempts[k].op = op})

MissingOrEmpty(v) == v \in {None, "", "{}"}

\* The work item lacks a required field.
InvalidItem(item) ==
    IF client = "cmdb"
    THEN MissingOrEmpty(item.ci_id) \/ MissingOrEmpty(item.updates)
    ELSE MissingOrEmpty(item.user_id)

SuccessStatus(resp) == resp.kind = "http" /\ resp.status \in {200, 201}

\* The latest process_user_to_technician has returned.
Returned == client = "tech" /\ pc \in {"user_loop", "done", "exited"} /\ idx >= 1

----------------------------------------------------------------------------
\* C1: the counts of a bulk run add up: successful + failed is the number of
\* items processed so far, it is the number of input items when the call
\* returns (0 and 0 for the empty list), and neither counter ever decreases.
C1_State ==
    /\ results.successful + results.failed = idx
    /\ idx <= Len(items)
    /\ pc = "done" => results.successful + results.failed = Len(items)
    /\ pc = "done" /\ items = <<>> => results = [successful |-> 0, failed |-> 0]

C1_Step ==
    /\ results'.successful >= results.successful
    /\ results'.failed >= results.failed

C1_CountsAddUp == []C1_State /\ [][C1_Step]_vars

C1_Witness ==
    /\ pc = "done"
    /\ Len(items) >= 2
    /\ results.successful >= 1
    /\ results.failed >= 1

\* C2: an item missing a required field sends no request and adds exactly
\* one to failed (and nothing to successful).
C2_State ==
    \A n \in 1..idx :
        InvalidItem(items[n]) => CountItemCalls(n) = 0 /\ outcomes[n] = PyFalse

C2_Step ==
    (pc \in {"ci_loop", "user_loop"} /\ idx < Len(items) /\ InvalidItem(items[idx + 1]))
    => /\ log' = log
       /\ idx' = idx + 1
       /\ results' = [results EXCEPT !.failed = @ + 1]

C2_InvalidItemNoCall == []C2_State /\ [][C2_Step]_vars

C2_Witness ==
    /\ client = "cmdb"
    /\ pc = "done"
    /\ Len(log) >= 1
    /\ \E n \in 1..Len(items) :
          /\ items[n].ci_id = "CI001"
          /\ items[n].updates = None
          /\ CountItemCalls(n) = 0
          /\ outcomes[n] = PyFalse

\* C3: when the convert step fails (transport error, status other than
\* 200/201) or answers 200/201 without a technician id, the invocation sends
\* no assignment request and returns failure.
C3_ConvertFailureStopsItem ==
    /\ lastCall.op = "convert_user_to_technician" /\ ~SuccessStatus(lastCall.resp)
            => lastCall.result = None
    /\ lastCall.op = "convert_user_to_technician" /\ lastCall.resp.body.val \notin TechnicianIds
            => lastCall.result \in {None, ""}
    /\ (attempts # <<>> /\ attempts[1].result \in {None, ""})
            => /\ Returned
               /\ Len(attempts) = 1
               /\ \A op \in AssignOps : CountCalls(idx, op) = 0
               /\ outcomes[idx] = PyFalse

C3_Witness ==
    /\ Returned
    /\ attempts = <<Attempt("convert_user_to_technician", "")>>
    /\ items[idx].site_ids # <<>>
    /\ items[idx].role_ids # <<>>
    /\ outcomes[idx] = PyFalse

\* C4: after a successful convert every assignment step with a non-empty id
\* list is attempted exactly once whatever the earlier steps gave, and the
\* item fails when at least one attempted assignment failed.
C4_AssignmentsAllAttempted ==
    (Returned /\ attempts # <<>> /\ attempts[1].result \in TechnicianIds)
    => /\ items[idx].site_ids # <<>>
            => /\ CountAttempts("assign_technician_to_sites") = 1
               /\ CountCalls(idx, "assign_technician_to_sites") = 1
       /\ items[idx].group_ids # <<>>
            => /\ CountAttempts("assign_technician_to_groups") = 1
               /\ CountCalls(idx, "assign_technician_to_groups") = 1
       /\ items[idx].role_ids # <<>>
            => /\ CountAttempts("assign_technician_roles") = 1
               /\ CountCalls(idx, "assign_technician_roles") = 1
       /\ (\E k \in 2..Len(attempts) : attempts[k].result # PyTrue)
            => outcomes[idx] = PyFalse

C4_Witness ==
    /\ Returned
    /\ items[idx].site_ids # <<>>
    /\ items[idx].group_ids = <<>>
    /\ items[idx].role_ids # <<>>
    /\ Len(attempts) = 3
    /\ attempts[2] = Attempt("assign_technician_to_sites", PyFalse)
    /\ attempts[3] = Attempt("assign_technician_roles", PyTrue)
    /\ CountCalls(idx, "assign_technician_roles") = 1
    /\ outcomes[idx] = PyFalse

\* C5: an update returns true exactly when the PUT is answered with status
\* 200 or 201.
C5_UpdateTrueIffSuccessStatus ==
    lastCall.op \in UpdateOps
    => (lastCall.result = PyTrue <=> SuccessStatus(lastCall.resp))

C5_Witness ==
    /\ lastCall.op = "update_ci_fields"
    /\ lastCall.resp.kind = "http"
    /\ lastCall.resp.status = 201
    /\ lastCall.result = PyTrue

\* C6: an update gives the boolean false for every status other than 200/201
\* and for a transport error; its result is always a boolean.
C6_UpdateFalseOnFailure ==
    lastCall.op \in UpdateOps
    => /\ lastCall.result \in {PyTrue, PyFalse}
       /\ ~SuccessStatus(lastCall.resp) => lastCall.result = PyFalse

\* The resource key a get operation looks up in the body.
KeyOf(op) ==
    IF op = "get_ci_details" THEN "ci"
    ELSE IF op = "get_user_details" THEN "user"
    ELSE "technician"

\* What the body holds under the resource key, the whole body without it.
NestedOrWhole(op, body) == IF body.rkey = KeyOf(op) THEN body.val ELSE WholeBody

C7_AbsenceOtherwise ==
    (lastCall.resp.kind = "error" \/ lastCall.resp.status # 200) => lastCall.result = None

\* C7 as stated: a get returns the resource body on every 200 (the value
\* under the resource key, the whole body without the key) and absence on 404,
\* on any other status and on a transport error.
C7_GetBodyOnEvery200 ==
    lastCall.op \in GetOps
    => /\ (lastCall.resp.kind = "http" /\ lastCall.resp.status = 200)
            => lastCall.result = NestedOrWhole(lastCall.op, lastCall.resp.body)
       /\ C7_AbsenceOtherwise

\* C7 amended: a get returns the resource body on a 200 whose body parses as
\* a JSON object, and absence on a 200 whose body does not, on 404, on any
\* other status and on a transport error.
C7_GetBodyOnParsed200 ==
    lastCall.op \in GetOps
    => /\ (lastCall.resp.kind = "http" /\ lastCall.resp.status = 200)
            => lastCall.result =
                  IF lastCall.resp.body.parse = "object"
                  THEN NestedOrWhole(lastCall.op, lastCall.resp.body)
                  ELSE None
       /\ C7_AbsenceOtherwise

C7_Witness ==
    /\ lastCall.op = "get_ci_details"
    /\ lastCall.resp.kind = "http"
    /\ lastCall.resp.status = 200
    /\ lastCall.resp.body.parse = "object"
    /\ lastCall.resp.body.rkey = "user"
    /\ lastCall.result = WholeBody

\* The item the bulk call is working on or has last finished.
LatestItem == IF pc \in {"sites", "groups", "roles"} THEN idx + 1 ELSE idx

\* C8: a bulk run takes the items in input order and never stops early: the
\* requests are sent in item order, each for the id of its own item, every
\* finished valid item has had its request whatever the earlier items gave,
\* and the call returns only after the last item.
C8_InputOrderNoFailFast ==
    /\ Len(outcomes) = idx
    /\ \A k \in 1..Len(log) : log[k].item \in 1..LatestItem
    /\ \A j, k \in 1..Len(log) : j < k => log[j].item <= log[k].item
    /\ \A k \in 1..Len(log) :
          /\ log[k].op = "update_ci_fields" => log[k].target = items[log[k].item].ci_id
          /\ log[k].op = "convert_user_to_technician"
                => log[k].target = items[log[k].item].user_id
    /\ \A n \in 1..idx : ~InvalidItem(items[n]) => CountItemCalls(n) >= 1
    /\ pc = "done" => idx = Len(items)

C8_Witness ==
    /\ pc = "done"
    /\ Len(items) >= 2
    /\ outcomes[1] = PyFalse
    /\ CountItemCalls(1) >= 1
    /\ CountItemCalls(2) >= 1
    /\ outcomes[2] = PyTrue

\* C9: no call is retried: a direct call sends one request, a bulk CI run
\* sends one PUT per valid item and none per invalid item, and a conversion
\* item sends at most one request per step, one per call made, at most four.
C9_NoRetry ==
    /\ lastCall.op # "none" => Len(lastCall.requests) = 1
    /\ client = "cmdb" =>
          \A n \in 1..idx :
              /\ CountCalls(n, "update_ci_fields") = IF InvalidItem(items[n]) THEN 0 ELSE 1
              /\ CountItemCalls(n) = CountCalls(n, "update_ci_fields")
    /\ client = "tech" =>
          /\ \A n \in 1..Len(items) :
                /\ CountCalls(n, "convert_user_to_technician") <= 1
                /\ \A op \in AssignOps : CountCalls(n, op) <= 1
                /\ CountItemCalls(n) <= 4
          /\ LatestItem >= 1 => CountItemCalls(LatestItem) = Len(attempts)

C9_Witness ==
    /\ Returned
    /\ Len(attempts) = 4
    /\ CountItemCalls(idx) = 4
    /\ attempts[2].result = PyFalse
    /\ attempts[4].result = PyFalse

\* A technician key was given to the constructor.
KeyGiven == technician_key \notin {None, ""}

\* The request carries exactly the authentication of the client's mode.
AuthOf(req) ==
    IF KeyGiven
    THEN "TECHNICIAN_KEY" \in req.headers /\ req.auth = None
    ELSE "TECHNICIAN_KEY" \notin req.headers /\ req.auth = "HTTPBasicAuth"

C10_State ==
    /\ ("TECHNICIAN_KEY" \in headers) # (auth = "HTTPBasicAuth")
    /\ \A k \in 1..Len(log) : AuthOf(log[k])
    /\ \A k \in 1..Len(lastCall.requests) : AuthOf(lastCall.requests[k])

\* C10: exactly one authentication mode is active: with a technician key
\* every request carries the TECHNICIAN_KEY header and no Basic-auth
\* credentials, without one every request carries Basic-auth credentials and
\* no TECHNICIAN_KEY header, and no operation changes the mode.
C10_OneAuthMode == []C10_State /\ [][UNCHANGED <<technician_key, headers, auth>>]_vars

C10_Witness ==
    /\ technician_key = "KEY"
    /\ Len(log) >= 2
    /\ log[1].auth = None
    /\ "TECHNICIAN_KEY" \in log[2].headers

SearchOps == {"search_ci", "search_users"}

ListOps == {"get_sites", "get_groups", "get_roles"}

\* The values an operation hands back when it returns.
PlainResults(op) ==
    IF op \in UpdateOps THEN {PyTrue, PyFalse, None}
    ELSE IF op \in AssignOps THEN {PyTrue, PyFalse}
    ELSE IF op \in GetOps THEN {None, "RECORD", WholeBody}
    ELSE IF op = "convert_user_to_technician" THEN {None, ""} \cup TechnicianIds
    ELSE IF op \in SearchOps THEN {EmptyList, "LIST"}
    ELSE {None, EmptyList, "LIST"}

\* C11: no resource operation lets an exception out: whatever the backend
\* answers (any status, a body that does not parse, a transport error) the
\* operation returns a value, and a failed list or search gives the empty
\* list.
C11_NoExceptionPropagates ==
    lastCall.op # "none"
    => /\ lastCall.result # Raised
       /\ lastCall.result \in PlainResults(lastCall.op)
       /\ (lastCall.op \in SearchOps \cup ListOps
              /\ (lastCall.resp.kind = "error" \/ lastCall.resp.status # 200
                     \/ lastCall.resp.body.parse # "object"))
            => lastCall.result = EmptyList

C11_Witness ==
    /\ lastCall.op = "search_users"
    /\ lastCall.resp.kind = "http"
    /\ lastCall.resp.status = 200
    /\ lastCall.resp.body.rkey = "users"
    /\ lastCall.resp.body.val = None
    /\ lastCall.result = EmptyList

\* main() has printed exactly one line, the counts of the bulk call.
PrintedSummary ==
    /\ Len(stdout) = 1
    /\ stdout[1].counts = <<results.successful, results.failed>>

Rank(op) ==
    IF op = "convert_user_to_technician" THEN 1
    ELSE IF op = "assign_technician_to_sites" THEN 2
    ELSE IF op = "assign_technician_to_groups" THEN 3
    ELSE 4

\* The id list of the item that the assignment operation op sends.
IdListOf(item, op) ==
    IF op = "assign_technician_to_sites" THEN item.site_ids
    ELSE IF op = "assign_technician_to_groups" THEN item.group_ids
    ELSE item.role_ids

\* C13: within a conversion item the requests go convert, sites, groups,
\* roles; every assignment request targets the technician id this item's
\* convert returned (not the user id, not another item's id); a step with an
\* empty id list sends nothing and leaves the result alone; the item succeeds
\* exactly when convert gave an id and every attempted assignment succeeded.
C13_ItemWorkflow ==
    client = "tech"
    => /\ \A j, k \in 1..Len(log) :
             (j < k /\ log[j].item = log[k].item) => Rank(log[j].op) < Rank(log[k].op)
       /\ \A j, k \in 1..Len(attempts) : j < k => Rank(attempts[j].op) < Rank(attempts[k].op)
       /\ \A k \in 1..Len(log) :
             log[k].op \in AssignOps
             => /\ CountCalls(log[k].item, "convert_user_to_technician") = 1
                /\ log[k].target \in TechnicianIds
                /\ log[k].target # items[log[k].item].user_id
                /\ log[k].item = LatestItem
                      => /\ attempts # <<>>
                         /\ attempts[1].op = "convert_user_to_technician"
                         /\ log[k].target = attempts[1].result
       /\ \A n \in 1..LatestItem : \A op \in AssignOps :
             IdListOf(items[n], op) = <<>> => CountCalls(n, op) = 0
       /\ Returned
             => /\ \A op \in AssignOps :
                      IdListOf(items[idx], op) = <<>> => CountAttempts(op) = 0
                /\ outcomes[idx] = PyTrue
                      <=> /\ attempts # <<>>
                          /\ attempts[1].result \in TechnicianIds
                          /\ \A k \in 2..Len(attempts) : attempts[k].result = PyTrue

C13_Witness ==
    /\ Returned
    /\ idx = 2
    /\ items[2].group_ids = <<>>
    /\ items[2].role_ids # <<>>
    /\ attempts[1].result = "T2"
    /\ outcomes[2] = PyTrue
    /\ \E j, k \in 1..Len(log) :
          /\ log[j].item = 1
          /\ log[j].op = "assign_technician_to_groups"
          /\ log[j].target = "T1"
          /\ log[k].item = 2
          /\ log[k].op = "assign_technician_roles"
          /\ log[k].target = "T2"

====
